---------------------------- MODULE Spec2Model ----------------------------
(***************************************************************************)
(* A model of gen-orgchart.py: the attribute normalizer                    *)
(* (canonicalize_attrs, attr_s), the org model builder (result_to_org),    *)
(* the chart renderer (gen_orgchart and its filters) and the control flow  *)
(* of main.                                                                *)
(*                                                                         *)
(* Text (str) is a sequence of one-character strings; bytes are a sequence *)
(* of byte tokens ("xC3" is the byte 0xC3).  Attribute names are only ever *)
(* compared, so they are plain strings.                                    *)
(***************************************************************************)
EXTENDS Integers, Sequences, FiniteSets, TLC

VARIABLES
    pc,         \* control point of the operation being run
    keysCheck,  \* the interpreter raises "dictionary keys changed during iteration" (CPython >= 3.8)
    entry,      \* the attribute dict handed to canonicalize_attrs (mutated in place)
    raised,     \* the exception that ended the operation, or NoError
    fields,     \* the Records so far: what attr_s extracted from each entry consumed
    result,     \* the (dn, entry) pairs result_to_org has consumed so far
    org,        \* the six tables of result_to_org
    doc,        \* the document gen_orgchart wrote
    kwargs,     \* the command line of main
    conn,       \* what main has done to the directory connection
    sink,       \* the output file: opened / truncated
    exitMsg     \* the argument of sys.exit, or None

vars == <<pc, keysCheck, entry, raised, fields, result, org, doc, kwargs, conn, sink, exitMsg>>

-----------------------------------------------------------------------------
(* Bounds *)

\* Longest search result result_to_org is stepped through.
MaxRecords == 2

\* Most attributes in a raw entry handed to the normalizer.
MaxKeys == 5

-----------------------------------------------------------------------------
(* Small helpers *)

\* Python's None where a str may stand: a value no text equals.
None == <<"<None>">>

\* No exception.
NoError == "no error"

Range(s) == {s[i] : i \in 1..Len(s)}

SeqsUpTo(S, n) == UNION {[1..k -> S] : k \in 0..n}

Injective(s) == \A i, j \in 1..Len(s) : s[i] = s[j] => i = j

\* Number of positions of s holding x.
Count(s, x) == Cardinality({i \in 1..Len(s) : s[i] = x})

EmptyFn == [x \in {} |-> x]

-----------------------------------------------------------------------------
(* bytes.decode("utf-8"), on the byte alphabet of the model: ASCII bytes   *)
(* decode to themselves, the lead byte 0xC3 with the continuation byte     *)
(* 0xA9 decodes to one character, and a stray lead or continuation byte is *)
(* a UnicodeDecodeError.                                                   *)

LeadBytes == {"xC3"}
ContBytes == {"xA9"}
InvalidBytes == {"xFF"}

RECURSIVE decode_ok(_)
decode_ok(b) ==
    IF b = <<>> THEN TRUE
    ELSE IF Head(b) \in LeadBytes
         THEN Len(b) >= 2 /\ b[2] \in ContBytes /\ decode_ok(Tail(Tail(b)))
    ELSE IF Head(b) \in ContBytes \cup InvalidBytes THEN FALSE
    ELSE decode_ok(Tail(b))

RECURSIVE decode_text(_)
decode_text(b) ==
    IF b = <<>> THEN <<>>
    ELSE IF Head(b) \in LeadBytes
         THEN <<"U+E9">> \o decode_text(Tail(Tail(b)))
    ELSE <<Head(b)>> \o decode_text(Tail(b))

-----------------------------------------------------------------------------
(* The Python dict of an entry.  CPython keeps the keys in an entry array  *)
(* in insertion order; a deleted key leaves a dummy slot; a new key is     *)
(* appended while the array has a free slot and otherwise the array is     *)
(* rebuilt without its dummies.  canonicalize_attrs mutates the dict it is *)
(* iterating over, so these details decide what it does.                   *)

PyDict_MINSIZE == 8

\* USABLE_FRACTION(n) = (n << 1) / 3
USABLE_FRACTION(n) == (2 * n) \div 3

RECURSIVE pow2_at_least(_, _)
pow2_at_least(p, n) == IF p >= n THEN p ELSE pow2_at_least(2 * p, n)

Slot(k, v) == [k |-> k, v |-> v, live |-> TRUE]

EmptyDict == [slots |-> <<>>, usable |-> USABLE_FRACTION(PyDict_MINSIZE)]

dict_used(d) == Cardinality({i \in 1..Len(d.slots) : d.slots[i].live})

dict_keys(d) == {d.slots[i].k : i \in {j \in 1..Len(d.slots) : d.slots[j].live}}

dict_index(d, k) == CHOOSE i \in 1..Len(d.slots) : d.slots[i].live /\ d.slots[i].k = k

dict_get(d, k) == d.slots[dict_index(d, k)].v

\* dictresize on insertion: the live slots, compacted, in a table grown to
\* hold GROWTH_RATE = used * 3 keys.
dict_resize(d) ==
    LET live == SelectSeq(d.slots, LAMBDA s : s.live)
        size == pow2_at_least(PyDict_MINSIZE, 3 * Len(live))
    IN  [slots |-> live, usable |-> USABLE_FRACTION(size) - Len(live)]

\* d[k] = v
dict_setitem(d, k, v) ==
    IF k \in dict_keys(d)
    THEN [d EXCEPT !.slots[dict_index(d, k)].v = v]
    ELSE LET r == IF d.usable <= 0 THEN dict_resize(d) ELSE d
         IN  [slots |-> Append(r.slots, Slot(k, v)), usable |-> r.usable - 1]

\* d.pop(k) for a key that is present: the slot becomes a dummy.
dict_pop(d, k) == [d EXCEPT !.slots[dict_index(d, k)].live = FALSE]

\* A dict built by inserting the pairs of kvs in order, as the directory
\* client library builds an entry.
RECURSIVE dict_of(_)
dict_of(kvs) ==
    IF kvs = <<>> THEN EmptyDict
    ELSE LET n == Len(kvs)
         IN  dict_setitem(dict_of(SubSeq(kvs, 1, n - 1)), kvs[n][1], kvs[n][2])

\* iter(d): next slot to look at, keys still expected, size when created.
dict_iter(d) == [pos |-> 1, len |-> dict_used(d), used |-> dict_used(d)]

\* First live slot at or after position p, or 0.
next_live(d, p) ==
    LET c == {i \in p..Len(d.slots) : d.slots[i].live}
    IN  IF c = {} THEN 0 ELSE CHOOSE i \in c : \A j \in c : i <= j

\* next(it): [kind |-> "key" | "stop" | "raise", ...]
dictiter_next(d, it, check) ==
    IF it.used # dict_used(d)
    THEN [kind |-> "raise", exc |-> "RuntimeError: dictionary changed size during iteration"]
    ELSE LET i == next_live(d, it.pos)
         IN  IF i = 0 THEN [kind |-> "stop"]
             ELSE IF check /\ it.len = 0
             THEN [kind |-> "raise", exc |-> "RuntimeError: dictionary keys changed during iteration"]
             ELSE [kind |-> "key", key |-> d.slots[i].k,
                   it |-> [it EXCEPT !.pos = i + 1, !.len = it.len - 1]]

-----------------------------------------------------------------------------
(* Record Normalizer *)

MAP_ATTRS ==
    [a \in {"department", "comment", "company", "employeeID", "thumbnailPhoto", "streetaddress"} |->
        CASE a = "department" -> "departmentNumber"
          [] a = "comment" -> "description"
          [] a = "company" -> "o"
          [] a = "employeeID" -> "employeeNumber"
          [] a = "thumbnailPhoto" -> "jpegPhoto"
          [] a = "streetaddress" -> "street"]

\* entry[attr_map[attr]] = entry.pop(attr)
rename_attr(d, attr, attr_map) ==
    LET v == dict_get(d, attr)
    IN  dict_setitem(dict_pop(d, attr), attr_map[attr], v)

\* The for loop of canonicalize_attrs from iterator state it on.
RECURSIVE canonicalize_loop(_, _, _, _)
canonicalize_loop(d, it, attr_map, check) ==
    LET n == dictiter_next(d, it, check)
    IN  IF n.kind = "stop" THEN [entry |-> d, raised |-> NoError]
        ELSE IF n.kind = "raise" THEN [entry |-> d, raised |-> n.exc]
        ELSE IF n.key \in DOMAIN attr_map
        THEN canonicalize_loop(rename_attr(d, n.key, attr_map), n.it, attr_map, check)
        ELSE canonicalize_loop(d, n.it, attr_map, check)

canonicalize_attrs(d, attr_map, check) == canonicalize_loop(d, dict_iter(d), attr_map, check)

\* attr_s: [raised, val]
attr_s(d, attr_name) ==
    IF attr_name \in dict_keys(d) /\ Len(dict_get(d, attr_name)) # 0
    THEN LET b == dict_get(d, attr_name)[1]
         IN  IF decode_ok(b) THEN [raised |-> NoError, val |-> decode_text(b)]
             ELSE [raised |-> "UnicodeDecodeError", val |-> <<>>]
    ELSE [raised |-> NoError, val |-> <<>>]


-----------------------------------------------------------------------------
(* Org Model Builder.  reports_to and depts are iterated by the template,  *)
(* so they keep their keys in insertion order; the other four tables are   *)
(* only looked up.                                                         *)

EmptyOD == [keys |-> <<>>, at |-> EmptyFn]

EmptyOrg ==
    [reports_to |-> EmptyOD, depts |-> EmptyOD, dept_of |-> EmptyFn,
     title_of |-> EmptyFn, mgr_of |-> EmptyFn, display_name |-> EmptyFn]

\* table[k] = v
fn_set(f, k, v) == [x \in DOMAIN f \cup {k} |-> IF x = k THEN v ELSE f[x]]

\* table.setdefault(k, []).append(x)
setdefault_append(od, k, x) ==
    IF k \in DOMAIN od.at
    THEN [od EXCEPT !.at[k] = Append(@, x)]
    ELSE [keys |-> Append(od.keys, k), at |-> fn_set(od.at, k, <<x>>)]

\* add_report with reports_to[mgr] = [dn] in place of setdefault(...).append(dn).
add_report_overwrite(o, dn, mgr) ==
    IF mgr # <<>>
    THEN [o EXCEPT !.mgr_of = fn_set(@, dn, mgr),
                   !.reports_to = IF mgr \in DOMAIN @.at
                                  THEN [@ EXCEPT !.at[mgr] = <<dn>>]
                                  ELSE setdefault_append(@, mgr, dn)]
    ELSE o

\* if mgr: mgr_of[dn] = mgr; reports_to.setdefault(mgr, []).append(dn)
add_report(o, dn, mgr) ==
    IF mgr # <<>>
    THEN [o EXCEPT !.mgr_of = fn_set(@, dn, mgr),
                   !.reports_to = setdefault_append(@, mgr, dn)]
    ELSE o

\* add_member without its guard "if dept:".
add_member_unguarded(o, dn, dept) ==
    [o EXCEPT !.depts = setdefault_append(@, dept, dn),
              !.dept_of = fn_set(@, dn, dept)]

\* if dept: depts.setdefault(dept, []).append(dn); dept_of[dn] = dept
add_member(o, dn, dept) ==
    IF dept # <<>>
    THEN [o EXCEPT !.depts = setdefault_append(@, dept, dn),
                   !.dept_of = fn_set(@, dn, dept)]
    ELSE o

\* display_name[dn] = attr_s(entry, "displayName")
set_display_name(o, dn, name) == [o EXCEPT !.display_name = fn_set(@, dn, name)]

\* title_of[dn] = title
set_title(o, dn, title) == [o EXCEPT !.title_of = fn_set(@, dn, title)]

\* One iteration of the loop of result_to_org over the pair (dn, d):
\* the tables afterwards, the entry as canonicalize_attrs left it, the
\* values attr_s extracted, and the exception that cut the iteration short,
\* if any.
record_step(o, dn, d, check) ==
    IF dn = None THEN [org |-> o, entry |-> d, raised |-> NoError, rec |-> <<>>]
    ELSE
    LET c  == canonicalize_attrs(d, MAP_ATTRS, check)
        e  == c.entry
        nm == attr_s(e, "displayName")
        o1 == set_display_name(o, dn, nm.val)
        ti == attr_s(e, "title")
        mg == attr_s(e, "manager")
        o2 == add_report(o1, dn, mg.val)
        dp == attr_s(e, "departmentNumber")
        o3 == add_member(o2, dn, dp.val)
        o4 == set_title(o3, dn, ti.val)
        rec == <<[dn |-> dn, displayName |-> nm.val, title |-> ti.val,
                  manager |-> mg.val, departmentNumber |-> dp.val]>>
    IN  IF c.raised # NoError THEN [org |-> o, entry |-> e, raised |-> c.raised, rec |-> <<>>]
        ELSE IF nm.raised # NoError THEN [org |-> o, entry |-> e, raised |-> nm.raised, rec |-> <<>>]
        ELSE IF ti.raised # NoError THEN [org |-> o1, entry |-> e, raised |-> ti.raised, rec |-> <<>>]
        ELSE IF mg.raised # NoError THEN [org |-> o1, entry |-> e, raised |-> mg.raised, rec |-> <<>>]
        ELSE IF dp.raised # NoError THEN [org |-> o2, entry |-> e, raised |-> dp.raised, rec |-> <<>>]
        ELSE [org |-> o4, entry |-> e, raised |-> NoError, rec |-> rec]

\* result_to_org over a whole result (a sequence of <<dn, key/value pairs>>),
\* from tables o on; stops at the first exception.
RECURSIVE result_to_org(_, _, _)
result_to_org(o, res, check) ==
    IF res = <<>> THEN [org |-> o, raised |-> NoError]
    ELSE LET s == record_step(o, Head(res)[1], dict_of(Head(res)[2]), check)
         IN  IF s.raised # NoError THEN [org |-> s.org, raised |-> s.raised]
             ELSE result_to_org(s.org, Tail(res), check)

-----------------------------------------------------------------------------
(* Chart Renderer *)

UPPER == <<"A","B","C","D","E","F","G","H","I","J","K","L","M",
           "N","O","P","Q","R","S","T","U","V","W","X","Y","Z">>
LOWER == <<"a","b","c","d","e","f","g","h","i","j","k","l","m",
           "n","o","p","q","r","s","t","u","v","w","x","y","z">>
DIGITS == {"0","1","2","3","4","5","6","7","8","9"}

\* str.lower(), one character
char_lower(c) ==
    IF \E i \in 1..Len(UPPER) : UPPER[i] = c
    THEN LOWER[CHOOSE i \in 1..Len(UPPER) : UPPER[i] = c]
    ELSE c

str_lower(s) == [i \in 1..Len(s) |-> char_lower(s[i])]

\* \w of a str pattern: letters (accented ones too), digits, underscore
IsWord(c) == c \in Range(UPPER) \cup Range(LOWER) \cup DIGITS \cup {"_", "U+E9"}

\* re.sub(r"\W+", "_", s); inRun: the previous character was not a word character
RECURSIVE sub_nonword(_, _)
sub_nonword(s, inRun) ==
    IF s = <<>> THEN <<>>
    ELSE IF IsWord(Head(s)) THEN <<Head(s)>> \o sub_nonword(Tail(s), FALSE)
    ELSE IF inRun THEN sub_nonword(Tail(s), TRUE)
    ELSE <<"_">> \o sub_nonword(Tail(s), TRUE)

\* s.strip("_")
strip_underscore(s) ==
    LET keep == {i \in 1..Len(s) : s[i] # "_"}
    IN  IF keep = {} THEN <<>>
        ELSE SubSeq(s, CHOOSE i \in keep : \A j \in keep : i <= j,
                       CHOOSE i \in keep : \A j \in keep : j <= i)

snake_case(s) == str_lower(strip_underscore(sub_nonword(s, FALSE)))

\* ldap.dn.explode_dn(dn_str, 1)[0] for a well-formed DN without escaped
\* separators: the value of the first RDN, its attribute type dropped.
dn_to_ident(dn) ==
    LET commas == {i \in 1..Len(dn) : dn[i] = ","}
        stop   == IF commas = {} THEN Len(dn) + 1
                  ELSE CHOOSE i \in commas : \A j \in commas : i <= j
        eqs    == {i \in 1..(stop - 1) : dn[i] = "="}
        eq     == CHOOSE i \in eqs : \A j \in eqs : i <= j
    IN  SubSeq(dn, eq + 1, stop - 1)

MISSING == <<"(","m","i","s","s","i","n","g"," ","f","r","o","m"," ",
             "d","a","t","a","b","a","s","e",")">>

\* title_s written as: title_of.get(dn) or '(missing from database)'.
title_s_falsy(dn, title_of) ==
    IF dn \in DOMAIN title_of /\ title_of[dn] # <<>> THEN title_of[dn] ELSE MISSING

\* title_of.get(dn, '(missing from database)')
title_s(dn, title_of) == IF dn \in DOMAIN title_of THEN title_of[dn] ELSE MISSING

\* display_name.get(dn, dn_to_ident(dn))
name_s(dn, display_name) == IF dn \in DOMAIN display_name THEN display_name[dn] ELSE dn_to_ident(dn)

NL == "\n"

\* f"{name_s(dn, display_name)}\n{title_s(dn, title_of)}"
name_and_title(dn, display_name, title_of) ==
    name_s(dn, display_name) \o <<NL>> \o title_s(dn, title_of)

labels(dns, o) == [i \in 1..Len(dns) |-> name_and_title(dns[i], o.display_name, o.title_of)]

\* The template, rendered: one cluster per key of depts and one edge group
\* per key of reports_to, both in key order.
gen_orgchart(o) ==
    [clusters |-> [i \in 1..Len(o.depts.keys) |->
                    LET dept == o.depts.keys[i]
                    IN  [id |-> snake_case(dept), label |-> dept,
                         nodes |-> labels(o.depts.at[dept], o)]],
     edges |-> [i \in 1..Len(o.reports_to.keys) |->
                    LET mgr_dn == o.reports_to.keys[i]
                    IN  [src |-> name_and_title(mgr_dn, o.display_name, o.title_of),
                         targets |-> labels(o.reports_to.at[mgr_dn], o)]]]


NoDoc == [written |-> FALSE, clusters |-> <<>>, edges |-> <<>>]

written(d) == [written |-> TRUE, clusters |-> d.clusters, edges |-> d.edges]

-----------------------------------------------------------------------------
(* Input values *)

DN_A == <<"c","n","=","a",",","o","=","x">>
DN_B == <<"c","n","=","b",",","o","=","x">>

NAME_BYTES == <<"Z","o","xC3","xA9">>
TITLE_BYTES == <<"D","e","v">>
ENG_BYTES == <<"E","n","g">>
RD_BYTES == <<"R"," ","&"," ","D">>
BAD_BYTES == <<"J","xFF">>

\* Entries of the builder's inputs, as the key/value pairs the directory
\* client inserted: display name and title both present or both absent, an
\* optional manager, and a department under the canonical key or under the
\* Active Directory key.
OrgEntries ==
    {nt \o mg \o dp :
        nt \in {<<>>, << <<"displayName", <<NAME_BYTES>> >>, <<"title", <<TITLE_BYTES>> >> >>},
        mg \in {<<>>, << <<"manager", <<DN_A>> >> >>, << <<"manager", <<DN_B>> >> >>},
        dp \in {<<>>, << <<"departmentNumber", <<ENG_BYTES>> >> >>,
                      << <<"department", <<RD_BYTES>> >> >>}}

\* A (None, _) pair is a search reference, not an entry.
NonEntry == <<None, <<>> >>

OrgInputs == ({DN_A, DN_B} \X OrgEntries) \cup {NonEntry}

NoArgs == [schema |-> <<>>, starttls |-> FALSE, binddn |-> None, password |-> None,
           passfile |-> None, output |-> None]

NoLdapError == [kind |-> "none", desc |-> <<>>, info |-> <<>>, str |-> <<>>]

NoConn == [initialized |-> FALSE, tls |-> FALSE, bound |-> FALSE, searched |-> FALSE,
           gotNone |-> FALSE, attrlist |-> <<>>, filterstr |-> <<>>,
           failedAt |-> "", error |-> NoLdapError]

NoSink == [opened |-> FALSE, truncated |-> FALSE, closed |-> FALSE]

-----------------------------------------------------------------------------
(* SpecOrg: result_to_org stepped one (dn, entry) pair at a time, then     *)
(* gen_orgchart over the tables it returns.                                *)

InitOrg ==
    /\ pc = "loop"
    /\ keysCheck \in BOOLEAN
    /\ entry = EmptyDict
    /\ raised = NoError
    /\ fields = <<>>
    /\ result = <<>>
    /\ org = EmptyOrg
    /\ doc = NoDoc
    /\ kwargs = NoArgs
    /\ conn = NoConn
    /\ sink = NoSink
    /\ exitMsg = None

\* The body of the for loop, lines 224-241, on the next pair of the result.
OrgRecord ==
    /\ pc = "loop"
    /\ Len(result) < MaxRecords
    /\ \E in \in OrgInputs :
         \E s \in {record_step(org, in[1], dict_of(in[2]), keysCheck)} :
             /\ result' = Append(result, in)
             /\ org' = s.org
             /\ entry' = s.entry
             /\ fields' = fields \o s.rec
             /\ raised' = s.raised
             /\ pc' = IF s.raised = NoError THEN "loop" ELSE "raised"
    /\ UNCHANGED <<keysCheck, doc, kwargs, conn, sink, exitMsg>>

\* The result is exhausted: result_to_org returns and gen_orgchart renders.
OrgRender ==
    /\ pc = "loop"
    /\ doc' = written(gen_orgchart(org))
    /\ pc' = "rendered"
    /\ UNCHANGED <<keysCheck, entry, raised, fields, result, org, kwargs, conn, sink, exitMsg>>

NextOrg == OrgRecord \/ OrgRender

SpecOrg == InitOrg /\ [][NextOrg]_vars


-----------------------------------------------------------------------------
(* SpecNorm: the Record Normalizer on one raw entry: canonicalize_attrs,   *)
(* then attr_s for each attribute result_to_org reads.                     *)

NormKeys == {"displayName", "title", "manager", "company", "department", "departmentNumber"}

\* The attributes result_to_org reads, in the order it reads them.
CanonicalAttrs == <<"displayName", "title", "manager", "departmentNumber">>

\* Raw entries: up to MaxKeys distinct keys in any order, each with one
\* value, but for at most one key that has an empty value list or a value
\* that is not UTF-8.
RawEntries ==
    {[i \in 1..Len(ks) |-> <<ks[i], IF i # sp THEN <<TITLE_BYTES>>
                                    ELSE IF kind = "empty" THEN <<>> ELSE <<BAD_BYTES>> >>] :
        <<ks, sp, kind>> \in
            {t \in SeqsUpTo(NormKeys, MaxKeys) \X (0..MaxKeys) \X {"empty", "bad"} :
                /\ Injective(t[1])
                /\ t[2] <= Len(t[1])
                /\ t[2] = 0 => t[3] = "empty"}}

InitNorm ==
    /\ pc = "raw"
    /\ keysCheck \in BOOLEAN
    /\ \E kvs \in RawEntries :
         /\ entry = dict_of(kvs)
         /\ result = << <<DN_A, kvs>> >>
    /\ raised = NoError
    /\ fields = <<>>
    /\ org = EmptyOrg
    /\ doc = NoDoc
    /\ kwargs = NoArgs
    /\ conn = NoConn
    /\ sink = NoSink
    /\ exitMsg = None

\* canonicalize_attrs(entry, MAP_ATTRS), line 226
NormCanonicalize ==
    /\ pc = "raw"
    /\ \E c \in {canonicalize_attrs(entry, MAP_ATTRS, keysCheck)} :
         /\ entry' = c.entry
         /\ raised' = c.raised
         /\ pc' = IF c.raised = NoError THEN "canonical" ELSE "raised"
    /\ UNCHANGED <<keysCheck, fields, result, org, doc, kwargs, conn, sink, exitMsg>>

\* The first exception attr_s raises over the attributes as, or NoError.
RECURSIVE first_raise(_, _)
first_raise(d, as) ==
    IF as = <<>> THEN NoError
    ELSE IF attr_s(d, Head(as)).raised # NoError THEN attr_s(d, Head(as)).raised
    ELSE first_raise(d, Tail(as))

\* attr_s(entry, ...) for the four attributes, lines 227-235
NormExtract ==
    /\ pc = "canonical"
    /\ \E r \in {first_raise(entry, CanonicalAttrs)} :
         /\ raised' = r
         /\ pc' = IF r = NoError THEN "extracted" ELSE "raised"
         /\ fields' = IF r = NoError
                      THEN <<[a \in Range(CanonicalAttrs) |-> attr_s(entry, a).val]>>
                      ELSE fields
    /\ UNCHANGED <<keysCheck, entry, result, org, doc, kwargs, conn, sink, exitMsg>>

NextNorm == NormCanonicalize \/ NormExtract

SpecNorm == InitNorm /\ [][NextNorm]_vars

\* C6: for every raw attribute mapping, canonicalize_attrs followed by
\* attr_s completes without raising, leaves no variant key in the entry, and
\* yields the empty string for every canonical attribute that is absent or
\* has an empty value list.
ClaimC6_NormalizerTotal ==
    /\ pc # "raised"
    /\ raised = NoError
    /\ pc \in {"canonical", "extracted"} => dict_keys(entry) \cap DOMAIN MAP_ATTRS = {}
    /\ pc = "extracted" =>
          \A a \in Range(CanonicalAttrs) :
              (a \notin dict_keys(entry) \/ dict_get(entry, a) = <<>>) => fields[1][a] = <<>>

-----------------------------------------------------------------------------
(* What the claims speak of, read off the consumed input and the output.   *)

\* The pairs of the input that are entries.
Entries == SelectSeq(result, LAMBDA r : r[1] # None)

\* The Records: fields[i] is what the Record Normalizer (canonicalize_attrs,
\* then attr_s) yielded for Entries[i].
Recs == fields

RecordIds == {Recs[i].dn : i \in 1..Len(Recs)}

IdsOf(rs) == [i \in 1..Len(rs) |-> rs[i].dn]

IdsOf2(es) == [i \in 1..Len(es) |-> es[i][1]]

\* The last Record with identifier id.
LastOf(id) ==
    LET at == {i \in 1..Len(Recs) : Recs[i].dn = id}
    IN  Recs[CHOOSE i \in at : \A j \in at : j <= i]

\* s without repetitions, each value at its first position.
RECURSIVE FirstSeen(_)
FirstSeen(s) ==
    IF s = <<>> THEN <<>>
    ELSE LET n == Len(s)
             front == FirstSeen(SubSeq(s, 1, n - 1))
         IN  IF s[n] \in Range(front) THEN front ELSE Append(front, s[n])

\* The identifiers of the entries whose department is d, in input order.
DeptMembers(d) == IdsOf(SelectSeq(Recs, LAMBDA r : r.departmentNumber = d))

\* The departments of the input in order of first appearance.
DeptsInOrder ==
    FirstSeen(SelectSeq([i \in 1..Len(Recs) |-> Recs[i].departmentNumber],
                        LAMBDA d : d # <<>>))

\* The value of the first RDN of the identifiers of the model's inputs.
FirstComponent(id) == CASE id = DN_A -> <<"a">> [] id = DN_B -> <<"b">>

\* The two lines of a node label.
FirstNL(l) == LET at == {i \in 1..Len(l) : l[i] = NL}
              IN  CHOOSE i \in at : \A j \in at : i <= j
Line1(l) == SubSeq(l, 1, FirstNL(l) - 1)
Line2(l) == SubSeq(l, FirstNL(l) + 1, Len(l))

\* Every <<identifier, label>> of the written document: cluster members,
\* edge sources and edge targets.
Rendered ==
    UNION {{<<org.depts.at[org.depts.keys[i]][j], doc.clusters[i].nodes[j]>> :
               j \in 1..Len(doc.clusters[i].nodes)} : i \in 1..Len(doc.clusters)}
    \cup {<<org.reports_to.keys[i], doc.edges[i].src>> : i \in 1..Len(doc.edges)}
    \cup UNION {{<<org.reports_to.at[org.reports_to.keys[i]][j], doc.edges[i].targets[j]>> :
               j \in 1..Len(doc.edges[i].targets)} : i \in 1..Len(doc.edges)}

-----------------------------------------------------------------------------
(* Claims about the builder and the renderer (SpecOrg) *)

\* C1: every rendered identifier's first label line is display_name[id] when
\* that is non-empty and otherwise the first component of the DN; a record
\* stored with an empty display name renders with the DN-derived name.
ClaimC1_NameFallback ==
    pc = "rendered" =>
        \A p \in Rendered :
            Line1(p[2]) = IF p[1] \in DOMAIN org.display_name /\ org.display_name[p[1]] # <<>>
                          THEN org.display_name[p[1]]
                          ELSE FirstComponent(p[1])

\* C2: when result_to_org returns, every per-identifier field reflects the
\* last record with that identifier; if that record has an empty department
\* (manager), the identifier has no dept_of (mgr_of) entry.
ClaimC2_LastWriteWins ==
    pc # "raised" =>
        \A id \in RecordIds :
            LET last == LastOf(id)
                dept == last.departmentNumber
                mgr  == last.manager
            IN  /\ id \in DOMAIN org.display_name
                /\ org.display_name[id] = last.displayName
                /\ id \in DOMAIN org.title_of
                /\ org.title_of[id] = last.title
                /\ IF dept = <<>> THEN id \notin DOMAIN org.dept_of
                   ELSE id \in DOMAIN org.dept_of /\ org.dept_of[id] = dept
                /\ IF mgr = <<>> THEN id \notin DOMAIN org.mgr_of
                   ELSE id \in DOMAIN org.mgr_of /\ org.mgr_of[id] = mgr

\* C3: every record with a non-empty manager M has its identifier exactly
\* once in reports_to[M], and exactly once among the targets of M's edge group.
ClaimC3_ReportsOnce ==
    pc # "raised" =>
        \A i \in 1..Len(Recs) :
            LET id == Recs[i].dn
                m  == Recs[i].manager
            IN  m # <<>> =>
                  /\ m \in DOMAIN org.reports_to.at
                  /\ Count(org.reports_to.at[m], id) = 1
                  /\ pc = "rendered" =>
                       \E g \in 1..Len(doc.edges) :
                           /\ org.reports_to.keys[g] = m
                           /\ Len(doc.edges[g].targets) = Len(org.reports_to.at[m])

\* C4: depts[d] is exactly the identifiers of the records whose department
\* is d, in input order; the departments are keyed in order of first
\* appearance; a record without a department is in no depts[d]; the
\* document has one cluster per department, in that order, with one node per
\* member, in that order.
TheoremC4_DeptGrouping ==
    pc # "raised" =>
        /\ org.depts.keys = DeptsInOrder
        /\ DOMAIN org.depts.at = Range(DeptsInOrder)
        /\ \A d \in DOMAIN org.depts.at : org.depts.at[d] = DeptMembers(d)
        /\ \A id \in RecordIds :
              (\A i \in 1..Len(Recs) :
                   Recs[i].dn = id => Recs[i].departmentNumber = <<>>)
              => \A d \in DOMAIN org.depts.at : id \notin Range(org.depts.at[d])
        /\ IdsOf(Recs) = IdsOf2(Entries)
        /\ pc = "rendered" =>
              /\ Len(doc.clusters) = Len(DeptsInOrder)
              /\ \A i \in 1..Len(doc.clusters) :
                    /\ doc.clusters[i].label = DeptsInOrder[i]
                    /\ doc.clusters[i].nodes =
                         [j \in 1..Len(DeptMembers(DeptsInOrder[i])) |->
                             name_and_title(DeptMembers(DeptsInOrder[i])[j],
                                            org.display_name, org.title_of)]

\* Two different records share a department and are rendered in one cluster
\* in input order.
WitnessC4 ==
    /\ pc = "rendered"
    /\ Len(Recs) = 2
    /\ Recs[1].dn # Recs[2].dn
    /\ \E i \in 1..Len(doc.clusters) : Len(doc.clusters[i].nodes) = 2
    /\ org.depts.at[org.depts.keys[1]] = <<Recs[1].dn, Recs[2].dn>>

\* C5: a rendered identifier that occurred as a record has title_of[id] as
\* its second label line, the empty string included; an identifier absent
\* from the model is labelled with the first component of its DN and the
\* sentinel.
TheoremC5_TitleResolution ==
    pc = "rendered" =>
        \A p \in Rendered :
            IF p[1] \in RecordIds
            THEN Line2(p[2]) = org.title_of[p[1]]
            ELSE p[2] = FirstComponent(p[1]) \o <<NL>> \o MISSING

\* A dangling manager is rendered as an edge source, and its report is a
\* record with an empty title.
WitnessC5 ==
    /\ pc = "rendered"
    /\ \E p \in Rendered : p[1] \notin RecordIds
    /\ \E p \in Rendered : p[1] \in RecordIds /\ org.title_of[p[1]] = <<>> /\ Line2(p[2]) = <<>>

\* The tables after any prefix of the input that raised nothing.
ModelConsistent ==
    pc # "raised" =>
        /\ \A id \in DOMAIN org.dept_of :
              /\ org.dept_of[id] \in DOMAIN org.depts.at
              /\ id \in Range(org.depts.at[org.dept_of[id]])
        /\ \A id \in DOMAIN org.mgr_of :
              /\ org.mgr_of[id] \in DOMAIN org.reports_to.at
              /\ id \in Range(org.reports_to.at[org.mgr_of[id]])
        /\ \A t \in {org.depts, org.reports_to} :
              /\ Range(t.keys) = DOMAIN t.at
              /\ Injective(t.keys)
              /\ \A k \in DOMAIN t.at :
                    /\ t.at[k] # <<>>
                    /\ Range(t.at[k]) \subseteq DOMAIN org.display_name \cap DOMAIN org.title_of
        /\ DOMAIN org.display_name = DOMAIN org.title_of
        /\ DOMAIN org.display_name = RecordIds

\* The step consumes a (None, _) pair.
ConsumesNonEntry ==
    /\ Len(result') = Len(result) + 1
    /\ result'[Len(result')][1] = None

\* C10: after any prefix of the input, dept_of and mgr_of agree with depts
\* and reports_to, every listed identifier is a key of display_name and of
\* title_of, which have the same keys, no list is empty, and consuming a
\* (None, _) pair changes none of the six tables.
TheoremC10_ModelConsistent ==
    /\ []ModelConsistent
    /\ [][ConsumesNonEntry => (org' = org /\ pc' = pc)]_vars

\* A (None, _) pair was consumed next to a record that names itself as its
\* manager and has a department.
WitnessC10 ==
    /\ pc = "loop"
    /\ Len(result) = 2
    /\ \E i \in 1..2 : result[i] = NonEntry
    /\ \E id \in DOMAIN org.mgr_of : org.mgr_of[id] = id /\ id \in DOMAIN org.dept_of


-----------------------------------------------------------------------------
(* main: the directory adapter steps around the pipeline *)

\* Most pairs in a search result of main.
MaxResult == 1

S_INET == <<"i","n","e","t","O","r","g","P","e","r","s","o","n">>
S_INET_UPPER == <<"I","N","E","T","O","R","G","P","E","R","S","O","N">>
S_AD == <<"A","c","t","i","v","e","D","i","r","e","c","t","o","r","y">>
S_AD_LOWER == <<"a","c","t","i","v","e","d","i","r","e","c","t","o","r","y">>
S_INET_LOWER == <<"i","n","e","t","o","r","g","p","e","r","s","o","n">>
S_OTHER == <<"o","p","e","n","l","d","a","p">>

Schemas == {S_INET, S_INET_UPPER, S_AD, S_AD_LOWER, S_OTHER, <<>>}

\* A filter tuple without prefix operator: "if prefix_op:" is false of it.
NoPrefix == ""

\* The filters dict of main, lines 412-415, as its items in order.
MainFilters == << <<"displayName", <<NoPrefix, "=", "*">> >>, <<"title", <<NoPrefix, "=", "*">> >> >>

\* filters[k] = v on the items of a dict
items_set(items, k, v) ==
    IF \E i \in 1..Len(items) : items[i][1] = k
    THEN [i \in 1..Len(items) |-> IF items[i][1] = k THEN <<k, v>> ELSE items[i]]
    ELSE Append(items, <<k, v>>)

\* One filter expression, as the pieces the f-string joins.
filt_str(attr, f) ==
    IF f[1] # NoPrefix THEN <<"(", f[1], "(", attr, f[2], f[3], ")", ")">>
    ELSE <<"(", attr, f[2], f[3], ")">>

RECURSIVE join_filters(_)
join_filters(items) ==
    IF items = <<>> THEN <<>>
    ELSE filt_str(Head(items)[1], Head(items)[2]) \o join_filters(Tail(items))

filters_to_ldapfilter(items) ==
    IF Len(items) > 1 THEN <<"(&">> \o join_filters(items) \o <<")">>
    ELSE IF Len(items) = 1 THEN <<"(">> \o join_filters(items) \o <<")">>
    ELSE <<>>

\* get_attrlist_filterstr comparing schema_name itself, without .lower().
get_attrlist_filterstr_cased(schema_name, filters) ==
    IF schema_name = S_INET
    THEN [raised |-> NoError,
          attrlist |-> <<"dn", "displayname", "title", "manager", "o", "departmentNumber">>,
          filterstr |-> filters_to_ldapfilter(filters)]
    ELSE IF schema_name = S_AD
    THEN [raised |-> NoError,
          attrlist |-> <<"dn", "displayname", "title", "manager", "company", "department">>,
          filterstr |-> filters_to_ldapfilter(
              items_set(items_set(filters, "sAMAccountType", <<NoPrefix, "=", "805306368">>),
                        "userAccountControl:1.2.840.113556.1.4.803:", <<"!", "=", "2">>))]
    ELSE [raised |-> "ValueError", attrlist |-> <<>>, filterstr |-> <<>>]

get_attrlist_filterstr(schema_name, filters) ==
    LET s == str_lower(schema_name)
    IN  IF s = S_INET_LOWER
        THEN [raised |-> NoError,
              attrlist |-> <<"dn", "displayname", "title", "manager", "o", "departmentNumber">>,
              filterstr |-> filters_to_ldapfilter(filters)]
        ELSE IF s = S_AD_LOWER
        THEN [raised |-> NoError,
              attrlist |-> <<"dn", "displayname", "title", "manager", "company", "department">>,
              filterstr |-> filters_to_ldapfilter(
                  items_set(items_set(filters, "sAMAccountType", <<NoPrefix, "=", "805306368">>),
                            "userAccountControl:1.2.840.113556.1.4.803:", <<"!", "=", "2">>))]
        ELSE [raised |-> "ValueError", attrlist |-> <<>>, filterstr |-> <<>>]

\* The LDAPError objects the client library raises: args[0] is a dict with
\* 'desc' and perhaps 'info', a dict without 'desc', or a plain string.
ERR_DESC == <<"d","o","w","n">>
ERR_INFO == <<"t","l","s">>
ERR_STR == <<"e","r","r">>

LdapErrors ==
    {[kind |-> "desc", desc |-> ERR_DESC, info |-> <<>>, str |-> ERR_STR],
     [kind |-> "desc+info", desc |-> ERR_DESC, info |-> ERR_INFO, str |-> ERR_STR],
     [kind |-> "nodesc", desc |-> <<>>, info |-> ERR_INFO, str |-> ERR_STR],
     [kind |-> "string", desc |-> <<>>, info |-> <<>>, str |-> ERR_STR]}

\* ldap_errmsg for an LDAPError: str(e) when args[0] has no 'desc', else
\* desc, followed by ': ' and info when args[0] has 'info'.
ldap_errmsg(e) ==
    IF e.kind \in {"nodesc", "string"} THEN e.str
    ELSE IF e.kind = "desc+info" THEN e.desc \o <<":", " ">> \o e.info
    ELSE e.desc

OUT_FILE == <<"o","r","g",".","d","o","t">>
DASH == <<"-">>
GIVEN == <<"g","i","v","e","n">>

\* Entries of the search results of main: a non-entry, a plain record, a
\* record with the Active Directory department key, and a record whose
\* display name is not UTF-8.
MainRecords ==
    {NonEntry,
     <<DN_A, << <<"displayName", <<NAME_BYTES>> >>, <<"title", <<TITLE_BYTES>> >>,
                <<"manager", <<DN_B>> >>, <<"departmentNumber", <<ENG_BYTES>> >> >> >>,
     <<DN_B, << <<"displayName", <<NAME_BYTES>> >>, <<"title", <<TITLE_BYTES>> >>,
                <<"department", <<RD_BYTES>> >> >> >>,
     <<DN_A, << <<"displayName", <<BAD_BYTES>> >>, <<"title", <<TITLE_BYTES>> >> >> >>}

InitMain ==
    /\ pc = "start"
    /\ keysCheck \in BOOLEAN
    /\ kwargs \in [schema : Schemas, starttls : BOOLEAN, binddn : {None, GIVEN},
                   password : {None, GIVEN}, passfile : {None, GIVEN},
                   output : {None, DASH, OUT_FILE}]
    /\ entry = EmptyDict
    /\ raised = NoError
    /\ fields = <<>>
    /\ result = <<>>
    /\ org = EmptyOrg
    /\ doc = NoDoc
    /\ conn = NoConn
    /\ sink = NoSink
    /\ exitMsg = None

\* Lines 374-415: the password comes from the command line or from the
\* first line of the password file, which may not open.
MainPrepare ==
    /\ pc = "start"
    /\ \/ /\ kwargs.passfile # None
          /\ \/ /\ kwargs' = [kwargs EXCEPT !.password = GIVEN]
                /\ pc' = "schema"
                /\ UNCHANGED raised
             \/ /\ raised' = "OSError"
                /\ pc' = "unhandled"
                /\ UNCHANGED kwargs
       \/ /\ kwargs.passfile = None
          /\ pc' = "schema"
          /\ UNCHANGED <<kwargs, raised>>
    /\ UNCHANGED <<keysCheck, entry, fields, result, org, doc, conn, sink, exitMsg>>

\* Line 417
MainSchema ==
    /\ pc = "schema"
    /\ \E r \in {get_attrlist_filterstr(kwargs.schema, MainFilters)} :
         /\ raised' = r.raised
         /\ conn' = [conn EXCEPT !.attrlist = r.attrlist, !.filterstr = r.filterstr]
         /\ pc' = IF r.raised = NoError THEN "initialize" ELSE "unhandled"
    /\ UNCHANGED <<keysCheck, entry, fields, result, org, doc, kwargs, sink, exitMsg>>

\* An LDAPError that no except clause catches.
Propagates(step, e) ==
    /\ conn' = [conn EXCEPT !.failedAt = step, !.error = e]
    /\ raised' = "LDAPError"
    /\ pc' = "unhandled"
    /\ UNCHANGED exitMsg

\* except ldap.LDAPError as e: sys.exit(ldap_errmsg(e))
Exits(step, e) ==
    /\ conn' = [conn EXCEPT !.failedAt = step, !.error = e]
    /\ exitMsg' = ldap_errmsg(e)
    /\ pc' = "exited"
    /\ UNCHANGED raised

\* Lines 419-420: ldap.initialize and set_options
MainInitialize ==
    /\ pc = "initialize"
    /\ \/ /\ conn' = [conn EXCEPT !.initialized = TRUE]
          /\ pc' = "starttls"
          /\ UNCHANGED <<raised, exitMsg>>
       \/ \E e \in LdapErrors : Propagates("initialize", e)
    /\ UNCHANGED <<keysCheck, entry, fields, result, org, doc, kwargs, sink>>

\* Lines 422-423
MainStartTls ==
    /\ pc = "starttls"
    /\ \/ /\ kwargs.starttls
          /\ \/ /\ conn' = [conn EXCEPT !.tls = TRUE]
                /\ pc' = "bind"
                /\ UNCHANGED <<raised, exitMsg>>
             \/ \E e \in LdapErrors : Propagates("start_tls_s", e)
       \/ /\ ~kwargs.starttls
          /\ pc' = "bind"
          /\ UNCHANGED <<conn, raised, exitMsg>>
    /\ UNCHANGED <<keysCheck, entry, fields, result, org, doc, kwargs, sink>>

\* Lines 425-429
MainBind ==
    /\ pc = "bind"
    /\ \/ /\ kwargs.binddn # None /\ kwargs.password # None
          /\ \/ /\ conn' = [conn EXCEPT !.bound = TRUE]
                /\ pc' = "search"
                /\ UNCHANGED <<raised, exitMsg>>
             \/ \E e \in LdapErrors : Exits("simple_bind_s", e)
       \/ /\ ~(kwargs.binddn # None /\ kwargs.password # None)
          /\ pc' = "search"
          /\ UNCHANGED <<conn, raised, exitMsg>>
    /\ UNCHANGED <<keysCheck, entry, fields, result, org, doc, kwargs, sink>>

\* Lines 431-441: the search returns a list of pairs (None is what line 443
\* tests for), or raises.
MainSearch ==
    /\ pc = "search"
    /\ \/ \E r \in SeqsUpTo(MainRecords, MaxResult) :
             /\ result' = r
             /\ conn' = [conn EXCEPT !.searched = TRUE]
             /\ pc' = "pipeline"
             /\ UNCHANGED <<raised, exitMsg>>
       \/ /\ result' = <<>>
          /\ conn' = [conn EXCEPT !.searched = TRUE, !.gotNone = TRUE]
          /\ pc' = "pipeline"
          /\ UNCHANGED <<raised, exitMsg>>
       \/ /\ \E e \in LdapErrors : Exits("search_ext_s", e)
          /\ UNCHANGED result
    /\ UNCHANGED <<keysCheck, entry, fields, org, doc, kwargs, sink>>

\* smart_open: a named file is opened for writing, which truncates it;
\* None and '-' are standard output.
smart_open(filename) ==
    IF filename # None /\ filename # <<>> /\ filename # DASH
    THEN [opened |-> TRUE, truncated |-> TRUE, closed |-> FALSE]
    ELSE [opened |-> TRUE, truncated |-> FALSE, closed |-> FALSE]

\* Leaving the with block: a file is closed, standard output is not.
smart_close(s) == [s EXCEPT !.closed = s.truncated]

\* Lines 443-445: if result is not None, open the output, build, render.
MainPipeline ==
    /\ pc = "pipeline"
    /\ \/ /\ conn.gotNone
          /\ pc' = "done"
          /\ UNCHANGED <<raised, org, doc, sink>>
       \/ /\ ~conn.gotNone
          /\ smart_open(kwargs.output).truncated
          /\ raised' = "OSError"
          /\ pc' = "unhandled"
          /\ UNCHANGED <<org, doc, sink>>
       \/ /\ ~conn.gotNone
          /\ \E b \in {result_to_org(EmptyOrg, result, keysCheck)} :
               /\ org' = b.org
               /\ raised' = b.raised
               /\ sink' = smart_close(smart_open(kwargs.output))
               /\ doc' = IF b.raised = NoError THEN written(gen_orgchart(b.org)) ELSE doc
               /\ pc' = IF b.raised = NoError THEN "done" ELSE "unhandled"
    /\ UNCHANGED <<keysCheck, entry, fields, result, kwargs, conn, exitMsg>>

NextMain ==
    \/ MainPrepare
    \/ MainSchema
    \/ MainInitialize
    \/ MainStartTls
    \/ MainBind
    \/ MainSearch
    \/ MainPipeline

Spec == InitMain /\ [][NextMain]_vars

-----------------------------------------------------------------------------
(* Claims about main (Spec) *)

\* Two characters that differ at most in letter case.
SameLetter(a, b) == a = b \/ \E k \in 1..Len(UPPER) : {a, b} = {UPPER[k], LOWER[k]}

CaselessEq(s, t) == Len(s) = Len(t) /\ \A i \in 1..Len(s) : SameLetter(s[i], t[i])

Unsupported(schema) == ~CaselessEq(schema, S_INET) /\ ~CaselessEq(schema, S_AD)

\* C7: with a --schema that is, case-insensitively, neither inetOrgPerson
\* nor ActiveDirectory, get_attrlist_filterstr raises and the run ends
\* before a connection is initialised, STARTTLS or a bind attempted, a
\* search issued or the output opened; with a supported value, in any
\* letter case, it does not raise.
TheoremC7_SchemaFirst ==
    /\ Unsupported(kwargs.schema) =>
          /\ pc \in {"start", "schema", "unhandled"}
          /\ pc = "unhandled" => raised \in {"ValueError", "OSError"}
          /\ (pc = "unhandled" /\ raised = "OSError") => kwargs.passfile # None
          /\ ~conn.initialized /\ ~conn.tls /\ ~conn.bound /\ ~conn.searched
          /\ conn.failedAt = ""
          /\ ~sink.opened /\ ~doc.written
    /\ ~Unsupported(kwargs.schema) => raised # "ValueError"

\* An unsupported schema has made get_attrlist_filterstr raise.
WitnessC7 ==
    /\ pc = "unhandled"
    /\ raised = "ValueError"
    /\ kwargs.schema = S_OTHER
    /\ kwargs.starttls
    /\ kwargs.binddn # None /\ kwargs.password # None

\* C8: every failure of an adapter step (initialize, STARTTLS, bind,
\* search) ends the run through sys.exit with the text ldap_errmsg formats;
\* none escapes as an unhandled error.
ClaimC8_AdapterFailuresReported ==
    conn.failedAt # "" =>
        /\ pc = "exited"
        /\ exitMsg = ldap_errmsg(conn.error)

\* C9: the output is opened, the tables built and the chart written only
\* after a search that obtained records.
ClaimC9_NoRecordsNoPipeline ==
    (sink.opened \/ doc.written \/ org # EmptyOrg) =>
        /\ conn.searched
        /\ ~conn.gotNone
        /\ result # <<>>

=============================================================================
